---- MODULE Spec2Model ----
(***************************************************************************)
(* Model of the Lambda Extensions API client (package extensions):        *)
(* Client.Register, Client.fetchNextEvent, Client.Run,                    *)
(* Client.SubscribeTelemetry and Event.UnmarshalJSON.                     *)
(*                                                                         *)
(* The host (the HTTP server behind c.client.Do) and the caller-supplied  *)
(* callbacks are the environment: every response and every callback       *)
(* return value is a nondeterministic choice.  Run is split at its        *)
(* blocking points (poll in flight, callback executing) so that context   *)
(* cancellation can interleave with it.                                    *)
(***************************************************************************)
EXTENDS Integers, Sequences, FiniteSets, TLC

\* ---- bounds of the model ------------------------------------------------
\* successful events the host delivers to one Run call
MaxEvents == 3
\* failed polls the host produces for one Run call while ctx is not cancelled
MaxFailures == 2

\* ---- program constants ---------------------------------------------------
Invoke == "INVOKE"
Shutdown == "SHUTDOWN"
StatusOK == 200

\* error values (nil is the absence of an error)
NoErr == "nil"
ErrNotRegistered == "extension is not registered. call Register method first"
ErrRegisterDo == "failed to register extension"
ErrRegisterDecode == "failed to decode register response"
ErrIdentifierEmpty == "extension identifier is empty"
ErrFetchDo == "failed to get next event"
ErrFetchStatus == "failed to get next event: status"
ErrFetchDecode == "failed to decode event response"
ErrUnknownEventType == "unknown event type"
ErrJSON == "json: cannot unmarshal"
ErrShutdownCallback == "shutdown callback failed"

\* errors the callbacks may return
InvokeCallbackErrs == {"invoke-err-1"}
ShutdownCallbackErrs == {"shutdown-err-1", "shutdown-err-2"}

\* session identifiers the host may hand out ("" = header absent or empty)
ExtensionIds == {"id-A", "id-B"}

\* ---- Event and its decoder ----------------------------------------------
\* a nil *InvokeEvent / *ShutdownEvent
NilEvent == [isNil |-> TRUE, EventType |-> "", id |-> ""]

\* Bodies of /event/next responses.  json = FALSE: not well-formed JSON.
\* eventType "" = discriminator missing (or null); typeOk = FALSE: the
\* eventType member is not a JSON string; fieldsOk = FALSE: some other member
\* has a JSON type the variant struct cannot take (e.g. deadlineMs: "x").
EventBodies ==
  {[json |-> FALSE, typeOk |-> TRUE, eventType |-> "", fieldsOk |-> TRUE, id |-> ""]}
  \cup {[json |-> TRUE, typeOk |-> FALSE, eventType |-> "", fieldsOk |-> TRUE, id |-> ""]}
  \cup {[json |-> TRUE, typeOk |-> TRUE, eventType |-> t, fieldsOk |-> TRUE, id |-> ""] :
           t \in {"", "OTHER"}}
  \cup {[json |-> TRUE, typeOk |-> TRUE, eventType |-> Invoke, fieldsOk |-> f, id |-> r] :
           f \in BOOLEAN, r \in {"req-1", "req-2"}}
  \cup {[json |-> TRUE, typeOk |-> TRUE, eventType |-> Shutdown, fieldsOk |-> f, id |-> "spindown"] :
           f \in BOOLEAN}

\* json.Unmarshal(data, &variant): fills the variant struct from the payload
DecodeVariant(data) ==
  [isNil |-> FALSE, EventType |-> data.eventType, id |-> data.id]

\* UnmarshalJSON that allocates both variants before looking at eventType
UnmarshalJSON_BothAllocated(data) ==
  IF ~data.json \/ ~data.typeOk
  THEN [Invoke |-> NilEvent, Shutdown |-> NilEvent, err |-> ErrJSON]
  ELSE CASE data.eventType \in {Invoke, Shutdown} ->
              [Invoke |-> DecodeVariant(data), Shutdown |-> DecodeVariant(data),
               err |-> IF data.fieldsOk THEN NoErr ELSE ErrJSON]
         [] OTHER ->
              [Invoke |-> NilEvent, Shutdown |-> NilEvent, err |-> ErrUnknownEventType]

\* UnmarshalJSON whose default case returns nil
UnmarshalJSON_AcceptUnknown(data) ==
  IF ~data.json \/ ~data.typeOk
  THEN [Invoke |-> NilEvent, Shutdown |-> NilEvent, err |-> ErrJSON]
  ELSE CASE data.eventType = Invoke ->
              [Invoke |-> DecodeVariant(data), Shutdown |-> NilEvent,
               err |-> IF data.fieldsOk THEN NoErr ELSE ErrJSON]
         [] data.eventType = Shutdown ->
              [Invoke |-> NilEvent, Shutdown |-> DecodeVariant(data),
               err |-> IF data.fieldsOk THEN NoErr ELSE ErrJSON]
         [] OTHER ->
              [Invoke |-> NilEvent, Shutdown |-> NilEvent, err |-> NoErr]

\* UnmarshalJSON with the two case bodies exchanged
UnmarshalJSON_Swapped(data) ==
  IF ~data.json \/ ~data.typeOk
  THEN [Invoke |-> NilEvent, Shutdown |-> NilEvent, err |-> ErrJSON]
  ELSE CASE data.eventType = Invoke ->
              [Invoke |-> NilEvent, Shutdown |-> DecodeVariant(data),
               err |-> IF data.fieldsOk THEN NoErr ELSE ErrJSON]
         [] data.eventType = Shutdown ->
              [Invoke |-> DecodeVariant(data), Shutdown |-> NilEvent,
               err |-> IF data.fieldsOk THEN NoErr ELSE ErrJSON]
         [] OTHER ->
              [Invoke |-> NilEvent, Shutdown |-> NilEvent, err |-> ErrUnknownEventType]

\* Event.UnmarshalJSON on a zero Event: the resulting Event and the error
UnmarshalJSON(data) ==
  IF ~data.json \/ ~data.typeOk
  THEN [Invoke |-> NilEvent, Shutdown |-> NilEvent, err |-> ErrJSON]
  ELSE CASE data.eventType = Invoke ->
              [Invoke |-> DecodeVariant(data), Shutdown |-> NilEvent,
               err |-> IF data.fieldsOk THEN NoErr ELSE ErrJSON]
         [] data.eventType = Shutdown ->
              [Invoke |-> NilEvent, Shutdown |-> DecodeVariant(data),
               err |-> IF data.fieldsOk THEN NoErr ELSE ErrJSON]
         [] OTHER ->
              [Invoke |-> NilEvent, Shutdown |-> NilEvent, err |-> ErrUnknownEventType]

\* ---- fetchNextEvent ------------------------------------------------------
\* what c.client.Do yields for GET /event/next
PollResponses ==
  {[doErr |-> TRUE, status |-> 0, body |-> b] :
      b \in {x \in EventBodies : ~x.json}}
  \cup {[doErr |-> FALSE, status |-> StatusOK, body |-> b] : b \in EventBodies}
  \cup {[doErr |-> FALSE, status |-> 500, body |-> b] :
      b \in {x \in EventBodies : ~x.json \/ (x.eventType = Invoke /\ x.fieldsOk /\ x.id = "req-1")}}

NoEvent == [Invoke |-> NilEvent, Shutdown |-> NilEvent]

\* Client.fetchNextEvent: (*Event, error); ev is NoEvent for a nil *Event
fetchNextEvent(resp) ==
  IF resp.doErr
  THEN [ev |-> NoEvent, err |-> ErrFetchDo]
  ELSE IF resp.status # StatusOK
  THEN [ev |-> NoEvent, err |-> ErrFetchStatus]
  ELSE LET d == UnmarshalJSON(resp.body)
       IN IF d.err # NoErr
          THEN [ev |-> NoEvent, err |-> ErrFetchDecode]
          ELSE [ev |-> [Invoke |-> d.Invoke, Shutdown |-> d.Shutdown], err |-> NoErr]

\* ---- Client.Run, between its blocking points ------------------------------
\* an error value: message and wrapped cause (%w); Nil is a nil error
Errf(msg, cause) == [msg |-> msg, cause |-> cause]
Nil == Errf(NoErr, NoErr)
\* Run has not returned yet
Pending == Errf("pending", NoErr)

\* RunEntry without the registration check
RunEntry_NoCheck(extId) ==
  [pc |-> "loop", result |-> Pending]

\* Run, entry: the registration check
RunEntry(extId) ==
  IF extId = ""
  THEN [pc |-> "done", result |-> Errf(ErrNotRegistered, NoErr)]
  ELSE [pc |-> "loop", result |-> Pending]

\* RunFetchFailed that never looks at ctx.Done()
RunFetchFailed_NoCtxCheck(done) ==
  [pc |-> "loop", result |-> Pending]

\* RunFetchFailed that returns the fetch error instead of retrying
RunFetchFailed_GiveUp(done) ==
  IF done
  THEN [pc |-> "done", result |-> Nil]
  ELSE [pc |-> "done", result |-> Errf(ErrFetchDo, NoErr)]

\* Run, fetchNextEvent returned an error: select on ctx.Done()
RunFetchFailed(done) ==
  IF done
  THEN [pc |-> "done", result |-> Nil]
  ELSE [pc |-> "loop", result |-> Pending]

\* RunDispatch that tests CallbackInvoke == nil the wrong way round
RunDispatch_SkipInvoke(e, cbInvoke, cbShutdown) ==
  IF ~e.Invoke.isNil
  THEN IF ~cbInvoke
       THEN [pc |-> "invokeCb", result |-> Pending]
       ELSE [pc |-> "loop", result |-> Pending]
  ELSE IF ~e.Shutdown.isNil
  THEN IF cbShutdown
       THEN [pc |-> "shutdownCb", result |-> Pending]
       ELSE [pc |-> "done", result |-> Nil]
  ELSE [pc |-> "loop", result |-> Pending]

\* RunDispatch that starts CallbackInvoke without waiting for it
RunDispatch_NoWait(e, cbInvoke, cbShutdown) ==
  IF ~e.Invoke.isNil
  THEN [pc |-> "loop", result |-> Pending]
  ELSE IF ~e.Shutdown.isNil
  THEN IF cbShutdown
       THEN [pc |-> "shutdownCb", result |-> Pending]
       ELSE [pc |-> "done", result |-> Nil]
  ELSE [pc |-> "loop", result |-> Pending]

\* RunDispatch whose return nil sits inside the callback branch only
RunDispatch_NilShutdownContinues(e, cbInvoke, cbShutdown) ==
  IF ~e.Invoke.isNil
  THEN IF cbInvoke
       THEN [pc |-> "invokeCb", result |-> Pending]
       ELSE [pc |-> "loop", result |-> Pending]
  ELSE IF ~e.Shutdown.isNil
  THEN IF cbShutdown
       THEN [pc |-> "shutdownCb", result |-> Pending]
       ELSE [pc |-> "loop", result |-> Pending]
  ELSE [pc |-> "loop", result |-> Pending]

\* Run, fetchNextEvent returned an event: which branch is taken
RunDispatch(e, cbInvoke, cbShutdown) ==
  IF ~e.Invoke.isNil
  THEN IF cbInvoke
       THEN [pc |-> "invokeCb", result |-> Pending]
       ELSE [pc |-> "loop", result |-> Pending]
  ELSE IF ~e.Shutdown.isNil
  THEN IF cbShutdown
       THEN [pc |-> "shutdownCb", result |-> Pending]
       ELSE [pc |-> "done", result |-> Nil]
  ELSE [pc |-> "loop", result |-> Pending]

\* RunInvokeReturned that treats a callback error as fatal
RunInvokeReturned_Fatal(err) ==
  IF err # NoErr
  THEN [pc |-> "done", result |-> Errf("invoke callback failed", err)]
  ELSE [pc |-> "loop", result |-> Pending]

\* Run, CallbackInvoke returned err
RunInvokeReturned(err) ==
  [pc |-> "loop", result |-> Pending]

\* RunShutdownReturned that only logs the callback error
RunShutdownReturned_Swallow(err) ==
  [pc |-> "done", result |-> Nil]

\* Run, CallbackShutdown returned err
RunShutdownReturned(err) ==
  IF err # NoErr
  THEN [pc |-> "done", result |-> Errf(ErrShutdownCallback, err)]
  ELSE [pc |-> "done", result |-> Nil]

\* ---- Client.Register -----------------------------------------------------
\* what c.client.Do yields for POST /register: transport error, whether the
\* body decodes as map[string]string, the Lambda-Extension-Identifier header
RegisterResponses ==
  {[doErr |-> TRUE, bodyOk |-> FALSE, header |-> ""]}
  \cup {[doErr |-> FALSE, bodyOk |-> b, header |-> h] :
          b \in BOOLEAN, h \in ExtensionIds \cup {""}}

\* RegisterEvents that subscribes to both kinds whatever callbacks are set
RegisterEvents_Both(cbInvoke, cbShutdown) ==
  <<Invoke, Shutdown>>

\* the events list built from the callbacks that are set
RegisterEvents(cbInvoke, cbShutdown) ==
  (IF cbInvoke THEN <<Invoke>> ELSE <<>>) \o (IF cbShutdown THEN <<Shutdown>> ELSE <<>>)

\* Register without the check for an empty identifier
Register_NoEmptyCheck(extId, resp) ==
  IF resp.doErr
  THEN [extensionId |-> extId, err |-> ErrRegisterDo]
  ELSE IF ~resp.bodyOk
  THEN [extensionId |-> extId, err |-> ErrRegisterDecode]
  ELSE [extensionId |-> resp.header, err |-> NoErr]

\* Client.Register: the extensionId afterwards and the error returned
Register(extId, resp) ==
  IF resp.doErr
  THEN [extensionId |-> extId, err |-> ErrRegisterDo]
  ELSE IF ~resp.bodyOk
  THEN [extensionId |-> extId, err |-> ErrRegisterDecode]
  ELSE IF resp.header = ""
  THEN [extensionId |-> resp.header, err |-> ErrIdentifierEmpty]
  ELSE [extensionId |-> resp.header, err |-> NoErr]

\* ---- which callback Run calls ----------------------------------------------
\* DispatchCall that never calls CallbackInvoke
DispatchCall_NoInvoke(e, cbInvoke, cbShutdown) ==
  IF ~e.Invoke.isNil THEN "none"
  ELSE IF ~e.Shutdown.isNil /\ cbShutdown THEN "CallbackShutdown"
  ELSE "none"

\* Run, fetchNextEvent returned an event: the callback Run calls for it
DispatchCall(e, cbInvoke, cbShutdown) ==
  IF ~e.Invoke.isNil
  THEN IF cbInvoke THEN "CallbackInvoke" ELSE "none"
  ELSE IF ~e.Shutdown.isNil
  THEN IF cbShutdown THEN "CallbackShutdown" ELSE "none"
  ELSE "none"

\* ---- telemetry: initial state ------------------------------------------------
DefaultTelemetryPort == 8080

\* the value DefaultTelemetrySubscription is initialised with
DocumentedDefault ==
  [SchemaVersion |-> "2022-12-13",
   Types |-> <<"function", "platform">>,
   Buffering |-> [MaxItems |-> 500, MaxBytes |-> 1024 * 1024, TimeoutMs |-> 1000],
   Destination |-> [Protocol |-> "HTTP", URI |-> <<"http://sandbox.localdomain:", DefaultTelemetryPort>>]]

\* Client.Name: filepath.Base(os.Args[0])
ClientName == "my-extension"

\* a nil *TelemetrySubscription
NoSubscription == [isNil |-> TRUE, sub |-> DocumentedDefault]

\* the subscription of the README example
CustomSubscription ==
  [isNil |-> FALSE,
   sub |-> [SchemaVersion |-> "2022-12-13",
            Types |-> <<"function", "platform">>,
            Buffering |-> [MaxItems |-> 500, MaxBytes |-> 1024 * 1024, TimeoutMs |-> 1000],
            Destination |-> [Protocol |-> "HTTP", URI |-> <<"http://sandbox.localdomain:", 9999>>]]]

\* NewDefaultTelemetrySubscription: a pointer to a copy of the package
\* variable; the copy's Types slice shares the variable's backing array
NewDefaultTelemetrySubscription(default) ==
  [isNil |-> FALSE, sub |-> default]

ErrSubscribeStatus == "failed to subscribe telemetry API"

\* what c.client.Do yields for PUT /2022-07-01/telemetry
TelemetryResponses ==
  {[doErr |-> TRUE, status |-> 0]}
  \cup {[doErr |-> FALSE, status |-> st] : st \in {StatusOK, 202, 204, 400, 500}}

\* SubscribeTelemetry that accepts every 2xx status
SubscribeTelemetry_Any2xx(extId, subscription, default, resp) ==
  LET s == IF subscription.isNil THEN NewDefaultTelemetrySubscription(default)
           ELSE subscription
      req == [sent |-> TRUE, name |-> ClientName, identifier |-> extId, payload |-> s.sub]
  IN IF resp.doErr
     THEN [req |-> req, err |-> ErrRegisterDo]
     ELSE IF resp.status < 200 \/ resp.status > 299
     THEN [req |-> req, err |-> ErrSubscribeStatus]
     ELSE [req |-> req, err |-> NoErr]

\* Client.SubscribeTelemetry: the request sent and the error returned
SubscribeTelemetry(extId, subscription, default, resp) ==
  LET s == IF subscription.isNil THEN NewDefaultTelemetrySubscription(default)
           ELSE subscription
      req == [sent |-> TRUE, name |-> ClientName, identifier |-> extId, payload |-> s.sub]
  IN IF resp.doErr
     THEN [req |-> req, err |-> ErrRegisterDo]
     ELSE IF resp.status # StatusOK
     THEN [req |-> req, err |-> ErrSubscribeStatus]
     ELSE [req |-> req, err |-> NoErr]

\* ---- the receiver --------------------------------------------------------
\* NewClient: os.Getenv("AWS_LAMBDA_RUNTIME_API"), and the endpoints built on it
AWS_LAMBDA_RUNTIME_API == "127.0.0.1:9001"
ExtensionAPIEndpoint(host) == <<"http://", host, "/2020-01-01/extension">>
TelemetryAPIEndpoint(host) == <<"http://", host, "/2022-07-01/telemetry">>

\* fetchNextEvent's URL, stored back into the receiver
RunReceiver_KeepsURL(c) ==
  [c EXCEPT !.lambdaExtensionAPIEndpoint = <<c.lambdaExtensionAPIEndpoint, "/event/next">>]

\* the receiver after a step of Run (its entry check, fetchNextEvent, the
\* dispatch): c's fields are read, none is assigned
RunReceiver(c) == c

\* a SubscribeTelemetry that forgets the session
SubscribeTelemetryReceiver_ClearsId(c) ==
  [c EXCEPT !.extensionId = ""]

\* the receiver after SubscribeTelemetry: c's fields are read, none is assigned
SubscribeTelemetryReceiver(c) == c

\* ---- state -----------------------------------------------------------------
\* no response received / nothing decoded yet
NoResponse == [doErr |-> FALSE, status |-> 0,
               body |-> [json |-> FALSE, typeOk |-> TRUE, eventType |-> "",
                         fieldsOk |-> TRUE, id |-> ""]]
NotDecoded == [Invoke |-> NilEvent, Shutdown |-> NilEvent, err |-> "not decoded"]

VARIABLES
  extensionId,       \* Client.extensionId
  CallbackInvoke,    \* Client.CallbackInvoke # nil
  CallbackShutdown,  \* Client.CallbackShutdown # nil
  Name,              \* Client.Name
  lambdaExtensionAPIEndpoint,  \* Client.lambdaExtensionAPIEndpoint
  lambdaTelemetryAPIEndpoint,  \* Client.lambdaTelemetryAPIEndpoint
  pc,                \* where Run is: idle, loop, fetching, invokeCb, shutdownCb, done
  ctxDone,           \* the ctx given to Run is cancelled
  ev,                \* the Event Run is dispatching
  runResult,         \* what Run returned
  polls,             \* fetchNextEvent calls of the current Run
  trace,             \* events the current Run fetched, in arrival order
  calls,             \* callback invocations of the current Run, in order
  failures,          \* failed polls of the current Run (saturating)
  fetchErr,          \* what the last fetchNextEvent returned as error
  cbErr,             \* what the last callback returned
  invokeFailed,      \* some CallbackInvoke of the current Run returned an error
  okAfterCancel,     \* a poll of the current Run succeeded after cancellation
  pollResp,          \* the response the last fetchNextEvent got
  decoded,           \* what Event.UnmarshalJSON made of its body, if it ran
  inFlight,          \* GET /event/next requests sent and not yet answered
  executing,         \* callbacks called and not yet returned
  regResp,           \* the response the last Register got
  regResult,         \* what the last Register returned
  regEvents,         \* the events list the last Register sent
  lastOp,            \* the operation or step taken last
  DefaultTelemetrySubscription,  \* the package variable
  held,              \* the subscription the caller got from NewDefaultTelemetrySubscription
  telArg,            \* the subscription the last SubscribeTelemetry was given
  telReq,            \* the request the last SubscribeTelemetry sent
  telResp,           \* the response the last SubscribeTelemetry got
  telResult,         \* what the last SubscribeTelemetry returned
  now,               \* mock host: seconds since /register was served
  tickerOn,          \* mock host: the ticker goroutine was started
  timerOn,           \* mock host: the shutdown timer goroutine was started
  tickC,             \* mock host: ticks buffered in tk.C (capacity 1)
  invokeSend,        \* mock host: ticker goroutine blocked in invokeCh <-
  shutdownSend,      \* mock host: timer goroutine blocked in shutdownCh <-
  due                \* mock host: timers that expire at the current instant

clientVars == <<extensionId, CallbackInvoke, CallbackShutdown, Name,
                lambdaExtensionAPIEndpoint, lambdaTelemetryAPIEndpoint>>

\* the fields of *Client as the methods see them
Receiver ==
  [Name |-> Name,
   CallbackInvoke |-> CallbackInvoke,
   CallbackShutdown |-> CallbackShutdown,
   extensionId |-> extensionId,
   lambdaExtensionAPIEndpoint |-> lambdaExtensionAPIEndpoint,
   lambdaTelemetryAPIEndpoint |-> lambdaTelemetryAPIEndpoint]

\* the fields of *Client are those of c when the step is done
ReceiverBecomes(c) ==
  /\ Name' = c.Name
  /\ CallbackInvoke' = c.CallbackInvoke
  /\ CallbackShutdown' = c.CallbackShutdown
  /\ extensionId' = c.extensionId
  /\ lambdaExtensionAPIEndpoint' = c.lambdaExtensionAPIEndpoint
  /\ lambdaTelemetryAPIEndpoint' = c.lambdaTelemetryAPIEndpoint
runVars == <<pc, ctxDone, ev, runResult, polls, trace, calls, failures,
             fetchErr, cbErr, invokeFailed, okAfterCancel, pollResp, decoded,
             inFlight, executing>>
regVars == <<regResp, regResult, regEvents>>
telVars == <<DefaultTelemetrySubscription, held, telArg, telReq, telResp, telResult>>
mockVars == <<now, tickerOn, timerOn, tickC, invokeSend, shutdownSend, due>>

vars == <<clientVars, runVars, regVars, lastOp, telVars, mockVars>>

\* the package as loaded: DefaultTelemetrySubscription has its initial value,
\* SubscribeTelemetry has not been called
TelemetryInit ==
  /\ DefaultTelemetrySubscription = DocumentedDefault
  /\ held = NoSubscription
  /\ telArg = NoSubscription
  /\ telReq = [sent |-> FALSE, name |-> "", identifier |-> "", payload |-> DocumentedDefault]
  /\ telResp = [doErr |-> FALSE, status |-> 0]
  /\ telResult = "none"

\* the mock host before /register is served
MockInit ==
  /\ now = 0
  /\ tickerOn = FALSE
  /\ timerOn = FALSE
  /\ tickC = 0
  /\ invokeSend = FALSE
  /\ shutdownSend = FALSE
  /\ due = {}

\* NewClient, then the caller assigns the callbacks it wants
Init ==
  /\ extensionId = ""
  /\ CallbackInvoke \in BOOLEAN
  /\ CallbackShutdown \in BOOLEAN
  /\ Name = ClientName
  /\ lambdaExtensionAPIEndpoint = ExtensionAPIEndpoint(AWS_LAMBDA_RUNTIME_API)
  /\ lambdaTelemetryAPIEndpoint = TelemetryAPIEndpoint(AWS_LAMBDA_RUNTIME_API)
  /\ pc = "idle"
  /\ ctxDone = FALSE
  /\ ev = NoEvent
  /\ runResult = Pending
  /\ polls = 0
  /\ trace = <<>>
  /\ calls = <<>>
  /\ failures = 0
  /\ fetchErr = NoErr
  /\ cbErr = NoErr
  /\ invokeFailed = FALSE
  /\ okAfterCancel = FALSE
  /\ pollResp = NoResponse
  /\ decoded = NotDecoded
  /\ inFlight = 0
  /\ executing = 0
  /\ regResp = [doErr |-> FALSE, bodyOk |-> FALSE, header |-> "none"]
  /\ regResult = "none"
  /\ regEvents = <<>>
  /\ lastOp = "NewClient"
  /\ TelemetryInit
  /\ MockInit

\* no call on the client is in progress
Quiescent == pc \in {"idle", "done"}

\* c.Register(ctx) against a host answering resp
DoRegister ==
  /\ Quiescent
  /\ \E resp \in RegisterResponses :
       LET r == Register(extensionId, resp)
       IN /\ extensionId' = r.extensionId
          /\ regResult' = r.err
          /\ regResp' = resp
  /\ regEvents' = RegisterEvents(CallbackInvoke, CallbackShutdown)
  /\ lastOp' = "Register"
  /\ UNCHANGED <<CallbackInvoke, CallbackShutdown, Name,
                 lambdaExtensionAPIEndpoint, lambdaTelemetryAPIEndpoint>>
  /\ UNCHANGED runVars
  /\ UNCHANGED <<telVars, mockVars>>

\* c.Run(ctx) is called, with a ctx that may already be cancelled
RunCall ==
  /\ Quiescent
  /\ LET r == RunEntry(extensionId)
     IN /\ pc' = r.pc
        /\ runResult' = r.result
  /\ ctxDone' \in BOOLEAN
  /\ ev' = NoEvent
  /\ polls' = 0
  /\ trace' = <<>>
  /\ calls' = <<>>
  /\ failures' = 0
  /\ fetchErr' = NoErr
  /\ cbErr' = NoErr
  /\ invokeFailed' = FALSE
  /\ okAfterCancel' = FALSE
  /\ pollResp' = NoResponse
  /\ decoded' = NotDecoded
  /\ inFlight' = 0
  /\ executing' = 0
  /\ lastOp' = "RunCall"
  /\ ReceiverBecomes(RunReceiver(Receiver))
  /\ UNCHANGED regVars
  /\ UNCHANGED <<telVars, mockVars>>

\* top of the for loop: fetchNextEvent sends GET /event/next
IssuePoll ==
  /\ pc = "loop"
  /\ pc' = "fetching"
  /\ polls' = polls + 1
  /\ inFlight' = inFlight + 1
  /\ ev' = NoEvent
  /\ fetchErr' = NoErr
  /\ pollResp' = NoResponse
  /\ decoded' = NotDecoded
  /\ lastOp' = "IssuePoll"
  /\ UNCHANGED <<ctxDone, runResult, trace, calls, failures, cbErr,
                 invokeFailed, okAfterCancel, executing>>
  /\ ReceiverBecomes(RunReceiver(Receiver))
  /\ UNCHANGED regVars
  /\ UNCHANGED <<telVars, mockVars>>

\* the event handed to a callback
Fetched(e) == IF ~e.Invoke.isNil THEN e.Invoke ELSE e.Shutdown

\* what json.NewDecoder(resp.Body).Decode(&ev) leaves in ev, when
\* fetchNextEvent gets that far
DecodeOf(resp) ==
  IF resp.doErr \/ resp.status # StatusOK THEN NotDecoded ELSE UnmarshalJSON(resp.body)

\* a Run that examines ctx when fetchNextEvent has returned an event, and
\* returns nil without dispatching it when ctx is cancelled
FetchOkWith_ReturnsWhenCancelled(resp) ==
  /\ pc = "fetching"
  /\ LET f == fetchNextEvent(resp)
         d == IF ctxDone THEN [pc |-> "done", result |-> Nil]
              ELSE RunDispatch(f.ev, CallbackInvoke, CallbackShutdown)
         c == IF ctxDone THEN "none"
              ELSE DispatchCall(f.ev, CallbackInvoke, CallbackShutdown)
     IN /\ f.err = NoErr
        /\ ev' = f.ev
        /\ trace' = Append(trace, [EventType |-> Fetched(f.ev).EventType,
                                    id |-> Fetched(f.ev).id])
        /\ pc' = d.pc
        /\ runResult' = d.result
        /\ calls' = CASE c = "CallbackInvoke" ->
                           Append(calls, [cb |-> "CallbackInvoke",
                                          EventType |-> f.ev.Invoke.EventType,
                                          id |-> f.ev.Invoke.id])
                      [] c = "CallbackShutdown" ->
                           Append(calls, [cb |-> "CallbackShutdown",
                                          EventType |-> f.ev.Shutdown.EventType,
                                          id |-> f.ev.Shutdown.id])
                      [] OTHER -> calls
        /\ executing' = IF c = "none" THEN executing ELSE executing + 1
  /\ pollResp' = resp
  /\ decoded' = DecodeOf(resp)
  /\ inFlight' = inFlight - 1
  /\ okAfterCancel' = (okAfterCancel \/ ctxDone)
  /\ lastOp' = "FetchOk"
  /\ UNCHANGED <<ctxDone, polls, failures, fetchErr, cbErr, invokeFailed>>
  /\ ReceiverBecomes(RunReceiver(Receiver))
  /\ UNCHANGED regVars
  /\ UNCHANGED telVars

\* fetchNextEvent returns the event of response resp; Run dispatches it
FetchOkWith(resp) ==
  /\ pc = "fetching"
  /\ LET f == fetchNextEvent(resp)
         d == RunDispatch(f.ev, CallbackInvoke, CallbackShutdown)
         c == DispatchCall(f.ev, CallbackInvoke, CallbackShutdown)
     IN /\ f.err = NoErr
        /\ ev' = f.ev
        /\ trace' = Append(trace, [EventType |-> Fetched(f.ev).EventType,
                                    id |-> Fetched(f.ev).id])
        /\ pc' = d.pc
        /\ runResult' = d.result
        /\ calls' = CASE c = "CallbackInvoke" ->
                           Append(calls, [cb |-> "CallbackInvoke",
                                          EventType |-> f.ev.Invoke.EventType,
                                          id |-> f.ev.Invoke.id])
                      [] c = "CallbackShutdown" ->
                           Append(calls, [cb |-> "CallbackShutdown",
                                          EventType |-> f.ev.Shutdown.EventType,
                                          id |-> f.ev.Shutdown.id])
                      [] OTHER -> calls
        /\ executing' = IF c = "none" THEN executing ELSE executing + 1
  /\ pollResp' = resp
  /\ decoded' = DecodeOf(resp)
  /\ inFlight' = inFlight - 1
  /\ okAfterCancel' = (okAfterCancel \/ ctxDone)
  /\ lastOp' = "FetchOk"
  /\ UNCHANGED <<ctxDone, polls, failures, fetchErr, cbErr, invokeFailed>>
  /\ ReceiverBecomes(RunReceiver(Receiver))
  /\ UNCHANGED regVars
  /\ UNCHANGED telVars

\* fetchNextEvent returns an event; Run dispatches it
FetchOk ==
  /\ Len(trace) < MaxEvents
  /\ \E resp \in PollResponses : FetchOkWith(resp)
  /\ UNCHANGED mockVars

\* fetchNextEvent returns an error (transport error, status, decode); a
\* cancelled ctx makes c.client.Do return an error
FetchFail ==
  /\ pc = "fetching"
  /\ failures < MaxFailures \/ ctxDone
  /\ \E resp \in PollResponses :
       LET f == fetchNextEvent(resp)
           r == RunFetchFailed(ctxDone)
       IN /\ f.err # NoErr
          /\ fetchErr' = f.err
          /\ pollResp' = resp
          /\ decoded' = DecodeOf(resp)
          /\ pc' = r.pc
          /\ runResult' = r.result
  /\ failures' = IF failures < MaxFailures THEN failures + 1 ELSE failures
  /\ inFlight' = inFlight - 1
  /\ lastOp' = "FetchFail"
  /\ UNCHANGED <<ctxDone, ev, polls, trace, calls, cbErr, invokeFailed, okAfterCancel,
                 executing>>
  /\ ReceiverBecomes(RunReceiver(Receiver))
  /\ UNCHANGED regVars
  /\ UNCHANGED <<telVars, mockVars>>

\* CallbackInvoke returns
InvokeReturn ==
  /\ pc = "invokeCb"
  /\ \E err \in InvokeCallbackErrs \cup {NoErr} :
       LET r == RunInvokeReturned(err)
       IN /\ pc' = r.pc
          /\ runResult' = r.result
          /\ cbErr' = err
          /\ invokeFailed' = (invokeFailed \/ err # NoErr)
  /\ executing' = executing - 1
  /\ lastOp' = "InvokeReturn"
  /\ UNCHANGED <<ctxDone, ev, polls, trace, calls, failures, fetchErr, okAfterCancel,
                 pollResp, decoded, inFlight>>
  /\ ReceiverBecomes(RunReceiver(Receiver))
  /\ UNCHANGED regVars
  /\ UNCHANGED <<telVars, mockVars>>

\* CallbackShutdown returns
ShutdownReturn ==
  /\ pc = "shutdownCb"
  /\ \E err \in ShutdownCallbackErrs \cup {NoErr} :
       LET r == RunShutdownReturned(err)
       IN /\ pc' = r.pc
          /\ runResult' = r.result
          /\ cbErr' = err
  /\ executing' = executing - 1
  /\ lastOp' = "ShutdownReturn"
  /\ UNCHANGED <<ctxDone, ev, polls, trace, calls, failures, fetchErr, invokeFailed,
                 okAfterCancel, pollResp, decoded, inFlight>>
  /\ ReceiverBecomes(RunReceiver(Receiver))
  /\ UNCHANGED regVars
  /\ UNCHANGED <<telVars, mockVars>>

\* the caller cancels the ctx it gave to Run
Cancel ==
  /\ ~Quiescent
  /\ ~ctxDone
  /\ ctxDone' = TRUE
  /\ lastOp' = "Cancel"
  /\ UNCHANGED <<pc, ev, runResult, polls, trace, calls, failures, fetchErr, cbErr,
                 invokeFailed, okAfterCancel, pollResp, decoded, inFlight, executing>>
  /\ UNCHANGED clientVars
  /\ UNCHANGED regVars
  /\ UNCHANGED <<telVars, mockVars>>

\* c.SubscribeTelemetry(ctx, subscription) against a host answering resp
DoSubscribe ==
  /\ Quiescent
  /\ \E subscription \in {NoSubscription, CustomSubscription, held},
        resp \in TelemetryResponses :
       LET r == SubscribeTelemetry(extensionId, subscription,
                                   DefaultTelemetrySubscription, resp)
       IN /\ telArg' = subscription
          /\ telReq' = r.req
          /\ telResp' = resp
          /\ telResult' = r.err
  /\ lastOp' = "SubscribeTelemetry"
  /\ UNCHANGED <<DefaultTelemetrySubscription, held>>
  /\ ReceiverBecomes(SubscribeTelemetryReceiver(Receiver))
  /\ UNCHANGED runVars
  /\ UNCHANGED regVars
  /\ UNCHANGED mockVars

\* the caller calls NewDefaultTelemetrySubscription and keeps the result
CallNewDefault ==
  /\ Quiescent
  /\ held' = NewDefaultTelemetrySubscription(DefaultTelemetrySubscription)
  /\ lastOp' = "NewDefaultTelemetrySubscription"
  /\ UNCHANGED <<DefaultTelemetrySubscription, telArg, telReq, telResp, telResult>>
  /\ UNCHANGED clientVars
  /\ UNCHANGED runVars
  /\ UNCHANGED regVars
  /\ UNCHANGED mockVars

\* the caller assigns a field of the struct it holds: s.Buffering.MaxItems = 1000
MutateHeldField ==
  /\ Quiescent
  /\ ~held.isNil
  /\ held.sub.Buffering.MaxItems # 1000
  /\ held' = [held EXCEPT !.sub.Buffering.MaxItems = 1000]
  /\ lastOp' = "MutateHeldField"
  /\ UNCHANGED <<DefaultTelemetrySubscription, telArg, telReq, telResp, telResult>>
  /\ UNCHANGED clientVars
  /\ UNCHANGED runVars
  /\ UNCHANGED regVars
  /\ UNCHANGED mockVars

\* the caller assigns an element of the Types slice it holds:
\* s.Types[i] = "extension"; the slice shares its backing array with
\* DefaultTelemetrySubscription.Types
MutateHeldTypes ==
  /\ Quiescent
  /\ ~held.isNil
  /\ \E i \in 1..Len(held.sub.Types) :
       /\ held.sub.Types[i] # "extension"
       /\ held' = [held EXCEPT !.sub.Types[i] = "extension"]
       /\ DefaultTelemetrySubscription' =
            [DefaultTelemetrySubscription EXCEPT !.Types[i] = "extension"]
  /\ lastOp' = "MutateHeldTypes"
  /\ UNCHANGED <<telArg, telReq, telResp, telResult>>
  /\ UNCHANGED clientVars
  /\ UNCHANGED runVars
  /\ UNCHANGED regVars
  /\ UNCHANGED mockVars

Next ==
  \/ DoRegister
  \/ RunCall
  \/ IssuePoll
  \/ FetchOk
  \/ FetchFail
  \/ InvokeReturn
  \/ ShutdownReturn
  \/ Cancel

Spec == Init /\ [][Next]_vars

\* Run's own steps are taken when enabled; a callback returns; a poll whose
\* ctx is cancelled returns (with an error, unless the response won the race)
FairSpec ==
  /\ Spec
  /\ WF_vars(IssuePoll)
  /\ WF_vars(FetchFail /\ ctxDone)
  /\ WF_vars(InvokeReturn)
  /\ WF_vars(ShutdownReturn)

\* ---- the mock host (MockExtensionAPIHandler) and the client of TestMockAPI --
\* seconds the model follows the mock host for
MockMaxTime == 7

\* time.NewTicker(1 * time.Second), time.NewTimer(5 * time.Second)
MockTickerPeriod == 1
MockShutdownAfter == 5

\* the timer that expires one second after /register
MockTimerExpires_OneSecond(t) == t = MockTickerPeriod

\* the ticker expires at every multiple of its period, the timer once
MockTickerExpires(t) == t > 0 /\ t % MockTickerPeriod = 0
MockTimerExpires(t) == t = MockShutdownAfter

\* the answers of the mock host
MockRegisterResponse == [doErr |-> FALSE, bodyOk |-> TRUE, header |-> "0000-0000-0000-0000"]
MockEventResponse(kind) ==
  [doErr |-> FALSE, status |-> StatusOK,
   body |-> [json |-> TRUE, typeOk |-> TRUE, eventType |-> kind, fieldsOk |-> TRUE, id |-> ""]]

\* TestMockAPI: c.Register(ctx); /register starts one goroutine per event kind
MockRegister ==
  /\ pc = "idle" /\ regResult = "none" /\ now = 0
  /\ LET r == Register(extensionId, MockRegisterResponse)
         events == RegisterEvents(CallbackInvoke, CallbackShutdown)
     IN /\ extensionId' = r.extensionId
        /\ regResult' = r.err
        /\ regResp' = MockRegisterResponse
        /\ regEvents' = events
        /\ tickerOn' = (\E i \in 1..Len(events) : events[i] = Invoke)
        /\ timerOn' = (\E i \in 1..Len(events) : events[i] = Shutdown)
  /\ lastOp' = "Register"
  /\ UNCHANGED <<CallbackInvoke, CallbackShutdown, Name,
                 lambdaExtensionAPIEndpoint, lambdaTelemetryAPIEndpoint>>
  /\ UNCHANGED runVars
  /\ UNCHANGED telVars
  /\ UNCHANGED <<now, tickC, invokeSend, shutdownSend, due>>

\* TestMockAPI: c.Run(context.Background()) right after Register
MockRun ==
  /\ pc = "idle" /\ regResult = NoErr
  /\ RunCall
  /\ ctxDone' = FALSE

\* the runtime delivers a tick into tk.C, which holds one tick and drops more
MockFireTicker ==
  /\ "ticker" \in due
  /\ due' = due \ {"ticker"}
  /\ tickC' = 1
  /\ lastOp' = "MockFireTicker"
  /\ UNCHANGED <<now, tickerOn, timerOn, invokeSend, shutdownSend>>
  /\ UNCHANGED <<clientVars, runVars, regVars, telVars>>

\* <-timer.C returns; the goroutine blocks in shutdownCh <- struct{}{}
MockFireTimer ==
  /\ "timer" \in due
  /\ due' = due \ {"timer"}
  /\ shutdownSend' = TRUE
  /\ lastOp' = "MockFireTimer"
  /\ UNCHANGED <<now, tickerOn, timerOn, tickC, invokeSend>>
  /\ UNCHANGED <<clientVars, runVars, regVars, telVars>>

\* for range tk.C takes the tick; the goroutine blocks in invokeCh <- struct{}{}
MockTickerWake ==
  /\ tickerOn /\ tickC = 1 /\ ~invokeSend
  /\ tickC' = 0
  /\ invokeSend' = TRUE
  /\ lastOp' = "MockTickerWake"
  /\ UNCHANGED <<now, tickerOn, timerOn, shutdownSend, due>>
  /\ UNCHANGED <<clientVars, runVars, regVars, telVars>>

\* /event/next: select takes <-invokeCh and answers {"eventType": "INVOKE"}
MockServeInvoke ==
  /\ invokeSend
  /\ FetchOkWith(MockEventResponse(Invoke))
  /\ invokeSend' = FALSE
  /\ UNCHANGED <<now, tickerOn, timerOn, tickC, shutdownSend, due>>

\* /event/next: select takes <-shutdownCh and answers {"eventType": "SHUTDOWN"}
MockServeShutdown ==
  /\ shutdownSend
  /\ FetchOkWith(MockEventResponse(Shutdown))
  /\ shutdownSend' = FALSE
  /\ UNCHANGED <<now, tickerOn, timerOn, tickC, invokeSend, due>>

\* something can happen without time passing: the client is not blocked in
\* its poll, a timer is due, or a goroutine or the select can proceed
MockBusy ==
  \/ pc \notin {"fetching", "done"}
  \/ due # {}
  \/ (tickerOn /\ tickC = 1 /\ ~invokeSend)
  \/ (pc = "fetching" /\ (invokeSend \/ shutdownSend))

\* one second passes while everybody is blocked
MockTick ==
  /\ ~MockBusy
  /\ now < MockMaxTime
  /\ now' = now + 1
  /\ due' = (IF tickerOn /\ MockTickerExpires(now + 1) THEN {"ticker"} ELSE {})
            \cup (IF timerOn /\ MockTimerExpires(now + 1) THEN {"timer"} ELSE {})
  /\ lastOp' = "MockTick"
  /\ UNCHANGED <<tickerOn, timerOn, tickC, invokeSend, shutdownSend>>
  /\ UNCHANGED <<clientVars, runVars, regVars, telVars>>

MockNext ==
  \/ MockRegister
  \/ MockRun
  \/ IssuePoll
  \/ MockFireTicker
  \/ MockFireTimer
  \/ MockTickerWake
  \/ MockServeInvoke
  \/ MockServeShutdown
  \/ InvokeReturn
  \/ ShutdownReturn
  \/ MockTick

MockSpec == Init /\ [][MockNext]_vars

\* the handshakes without Run: Register, SubscribeTelemetry and a caller
\* working with NewDefaultTelemetrySubscription's result
TelemetryNext ==
  \/ DoRegister
  \/ DoSubscribe
  \/ CallNewDefault
  \/ MutateHeldField
  \/ MutateHeldTypes

TelemetrySpec == Init /\ [][TelemetryNext]_vars

\* one client, followed either through Register and Run or, before Run is
\* called, through Register and SubscribeTelemetry
ClientNext ==
  \/ (TelemetryInit /\ Next)
  \/ (pc = "idle" /\ (DoRegister \/ DoSubscribe))

ClientSpec == Init /\ [][ClientNext]_vars

TypeOK ==
  /\ extensionId \in ExtensionIds \cup {""}
  /\ pc \in {"idle", "loop", "fetching", "invokeCb", "shutdownCb", "done"}
  /\ polls \in 0..(MaxEvents + MaxFailures + 1)
  /\ Len(trace) <= MaxEvents

\* ---- helpers for the properties -----------------------------------------
\* the current Run fetched a Shutdown event
ShutdownSeen == trace # <<>> /\ trace[Len(trace)].EventType = Shutdown

\* the callback invocation that event e of the trace must produce
CallFor(e) ==
  [cb |-> IF e.EventType = Invoke THEN "CallbackInvoke" ELSE "CallbackShutdown",
   EventType |-> e.EventType, id |-> e.id]

\* C1: for a registered client with both callbacks set, when Run has fetched
\* n Invoke events followed by one Shutdown event and every callback returned
\* nil, the callbacks were invoked once per event in arrival order
\* (CallbackInvoke n times, then CallbackShutdown once) and Run returned nil.
C1_InvokesThenShutdown ==
  ( /\ pc = "done"
    /\ CallbackInvoke /\ CallbackShutdown
    /\ ShutdownSeen
    /\ ~invokeFailed /\ cbErr = NoErr )
  => /\ \A i \in 1..(Len(trace) - 1) : trace[i].EventType = Invoke
     /\ Len(calls) = Len(trace)
     /\ \A i \in 1..Len(trace) : calls[i] = CallFor(trace[i])
     /\ runResult = Nil

\* C1 witness: Run returned after two distinguishable Invoke events and a
\* Shutdown event, all callbacks having returned nil
C1_Witness ==
  /\ pc = "done" /\ CallbackInvoke /\ CallbackShutdown
  /\ ~invokeFailed /\ cbErr = NoErr
  /\ Len(trace) = 3
  /\ trace[1].id = "req-2" /\ trace[2].id = "req-1"
  /\ trace[3].EventType = Shutdown
  /\ Len(calls) = 3 /\ runResult = Nil

\* C2: Shutdown is terminal for Run: once Run has fetched a Shutdown event it
\* is in the shutdown callback or has returned, and from then on no poll is
\* issued and no callback is invoked (until Run is called again), whether the
\* shutdown callback succeeds, fails or is nil.
C2_ShutdownTerminal ==
  /\ [](ShutdownSeen => pc \in {"shutdownCb", "done"})
  /\ [][ShutdownSeen /\ lastOp' # "RunCall"
          => /\ polls' = polls
             /\ calls' = calls
             /\ trace' = trace
             /\ pc' \in {"shutdownCb", "done"}]_vars

\* C2 witness: Run returned after a Shutdown event for which no callback is set
C2_Witness ==
  /\ ShutdownSeen /\ pc = "done" /\ ~CallbackShutdown /\ lastOp = "FetchOk"

\* C3: when CallbackShutdown returns an error Run returns that error (wrapped
\* as "shutdown callback failed: %w"); when it returns nil, or no shutdown
\* callback is set, Run returns nil.
C3_ShutdownResult ==
  (pc = "done" /\ ShutdownSeen)
  => IF CallbackShutdown /\ cbErr # NoErr
     THEN runResult = Errf(ErrShutdownCallback, cbErr) /\ cbErr \in ShutdownCallbackErrs
     ELSE runResult = Nil

\* C3 witness: Run returned the second of the errors CallbackShutdown can return
C3_Witness ==
  /\ pc = "done" /\ ShutdownSeen /\ CallbackShutdown
  /\ cbErr = "shutdown-err-2" /\ runResult.cause = "shutdown-err-2"

\* C4: an error from CallbackInvoke never terminates Run: the step in which
\* the callback returns an error takes Run back to the top of its loop with
\* nothing returned, and no result of Run ever carries a CallbackInvoke error.
C4_InvokeErrorSwallowed ==
  /\ [][pc = "invokeCb" /\ lastOp' = "InvokeReturn" /\ cbErr' # NoErr
          => pc' = "loop" /\ runResult' = Pending]_vars
  /\ [](runResult.cause \notin InvokeCallbackErrs /\ runResult.msg \notin InvokeCallbackErrs)

\* C4 witness: after a CallbackInvoke error a later event was fetched and
\* dispatched to a callback
C4_Witness ==
  /\ invokeFailed /\ lastOp = "FetchOk" /\ Len(calls) >= 2
  /\ pc \in {"invokeCb", "shutdownCb"}

\* C5: Run on a client whose extensionId is empty returns the "not
\* registered" error at once: no poll is issued and no callback is invoked.
C5_RunUnregistered ==
  /\ [][Quiescent /\ lastOp' = "RunCall" /\ extensionId = ""
          => /\ pc' = "done"
             /\ runResult' = Errf(ErrNotRegistered, NoErr)
             /\ polls' = 0 /\ calls' = <<>> /\ trace' = <<>>]_vars
  /\ [](runResult.msg = ErrNotRegistered
          => pc = "done" /\ polls = 0 /\ calls = <<>> /\ trace = <<>>)

\* C5 witness: Run was called on an unregistered client with both callbacks set
C5_Witness ==
  /\ lastOp = "RunCall" /\ extensionId = "" /\ pc = "done"
  /\ CallbackInvoke /\ CallbackShutdown
  /\ runResult.msg = ErrNotRegistered

\* Run is executing and is not inside the shutdown callback
RunPolling == pc \in {"loop", "fetching", "invokeCb"}

\* C6: a poll that fails while ctx is cancelled makes Run return nil; hence
\* once ctx is cancelled while Run is polling (or in the invoke callback), Run
\* eventually returns nil unless a later poll succeeds.
C6_CancelledPollFailure ==
  /\ [][pc = "fetching" /\ ctxDone /\ lastOp' = "FetchFail"
          => pc' = "done" /\ runResult' = Nil]_vars
  /\ ((ctxDone /\ RunPolling) ~> ((pc = "done" /\ runResult = Nil) \/ okAfterCancel))

\* C6 witness: Run returned nil from a poll that failed after cancellation
\* although earlier polls had failed and been retried
C6_Witness ==
  /\ pc = "done" /\ ctxDone /\ lastOp = "FetchFail" /\ runResult = Nil
  /\ failures = MaxFailures /\ ~okAfterCancel

\* C7: while ctx is not cancelled a poll failure of any kind (transport
\* error, non-OK status, undecodable body) takes Run back to the top of its
\* loop; Run never returns because of it, and the only errors Run returns are
\* "not registered" and a failed shutdown callback.
C7_PollFailureRetried ==
  /\ [][pc = "fetching" /\ ~ctxDone /\ lastOp' = "FetchFail"
          => /\ pc' = "loop" /\ runResult' = Pending
             /\ fetchErr' \in {ErrFetchDo, ErrFetchStatus, ErrFetchDecode}]_vars
  /\ [](pc = "done" => runResult.msg \in {NoErr, ErrNotRegistered, ErrShutdownCallback})
  /\ [](runResult.msg = ErrShutdownCallback
          => ShutdownSeen /\ CallbackShutdown /\ cbErr # NoErr)

\* C7 witness: a poll failed on an undecodable body after earlier failures,
\* ctx not cancelled, and Run is back at the top of its loop
C7_Witness ==
  /\ pc = "loop" /\ ~ctxDone /\ lastOp = "FetchFail"
  /\ fetchErr = ErrFetchDecode /\ failures >= 2 /\ polls >= 2

\* C8: Register against a response without (or with an empty) identifier
\* header returns an error and leaves an empty extensionId empty; when the
\* response is otherwise well-formed the extensionId is empty afterwards.
C8_RegisterNoIdentifier ==
  [][lastOp' = "Register" /\ regResp'.header = ""
       => /\ regResult' # NoErr
          /\ (extensionId = "" => extensionId' = "")
          /\ (~regResp'.doErr /\ regResp'.bodyOk
                => extensionId' = "" /\ regResult' = ErrIdentifierEmpty)]_vars

\* C8 witness: a fresh client got a well-formed response without identifier
C8_Witness ==
  /\ lastOp = "Register" /\ regResp = [doErr |-> FALSE, bodyOk |-> TRUE, header |-> ""]
  /\ regResult = ErrIdentifierEmpty /\ extensionId = ""

\* C9: once the extensionId is non-empty it keeps its value in every later
\* state, whatever Register, SubscribeTelemetry and Run calls follow.
C9_ExtensionIdSetOnce ==
  [][extensionId # "" => extensionId' = extensionId]_vars

\* C10: a Register call that returns an error leaves the extensionId exactly
\* as it was before the call.
C10_FailedRegisterKeepsId ==
  [][lastOp' = "Register" /\ regResult' # NoErr => extensionId' = extensionId]_vars

\* C11: SubscribeTelemetry called while the extensionId is empty does not
\* return nil and does not send a request to the host.
C11_SubscribeNeedsRegister ==
  (lastOp = "SubscribeTelemetry" /\ extensionId = "")
  => /\ telResult # NoErr
     /\ ~(telReq.sent /\ telReq.identifier = "")

\* C12: the events list Register sends contains INVOKE exactly when
\* CallbackInvoke is set and SHUTDOWN exactly when CallbackShutdown is set,
\* without duplicates; with no callback set the list is empty.
C12_RegisterEventsFromCallbacks ==
  regResult # "none"
  => /\ \A i \in 1..Len(regEvents) : regEvents[i] \in {Invoke, Shutdown}
     /\ (\E i \in 1..Len(regEvents) : regEvents[i] = Invoke) <=> CallbackInvoke
     /\ (\E i \in 1..Len(regEvents) : regEvents[i] = Shutdown) <=> CallbackShutdown
     /\ \A i, j \in 1..Len(regEvents) : i # j => regEvents[i] # regEvents[j]
     /\ (~CallbackInvoke /\ ~CallbackShutdown => regEvents = <<>>)

\* C12 witness: a client with only the shutdown callback has registered
C12_Witness ==
  /\ lastOp = "Register" /\ ~CallbackInvoke /\ CallbackShutdown
  /\ regEvents = <<Shutdown>>

\* C15: SubscribeTelemetry called with a nil subscription sends exactly the
\* documented default payload.
C15_NilSendsDocumentedDefault ==
  (lastOp = "SubscribeTelemetry" /\ telArg.isNil)
  => /\ telReq.sent
     /\ telReq.payload = DocumentedDefault

\* C16: SubscribeTelemetry returns an error when the host answers with a
\* non-2xx status and nil when it answers with any 2xx status.
C16_Any2xxSucceeds ==
  (lastOp = "SubscribeTelemetry" /\ ~telResp.doErr)
  => (telResult = NoErr <=> telResp.status \in 200..299)

\* C16 as amended: SubscribeTelemetry returns nil exactly when the host
\* answers with status 200; every other status, non-2xx or 2xx, is an error.
C16_Only200Succeeds ==
  (lastOp = "SubscribeTelemetry" /\ ~telResp.doErr)
  => /\ (telResult = NoErr <=> telResp.status = StatusOK)
     /\ (telResp.status \notin 200..299 => telResult = ErrSubscribeStatus)

\* C16 witness: the host answered 204 and SubscribeTelemetry returned an error
C16_Witness ==
  /\ lastOp = "SubscribeTelemetry" /\ ~telResp.doErr
  /\ telResp.status = 204 /\ telResult = ErrSubscribeStatus

\* Event.UnmarshalJSON ran on the body of the last response
DecodeRan == ~pollResp.doErr /\ pollResp.status = StatusOK

\* the body is JSON whose eventType member is the string k
HasDiscriminator(k) ==
  pollResp.body.json /\ pollResp.body.typeOk /\ pollResp.body.eventType = k

\* C13: for every well-formed event payload the decode succeeds and leaves
\* exactly one variant populated: eventType "INVOKE" gives the Invoke variant
\* (Shutdown nil), "SHUTDOWN" the Shutdown variant (Invoke nil); and whenever
\* a decode succeeds exactly one variant is populated.
C13_ExactlyOneVariant ==
  /\ (DecodeRan /\ HasDiscriminator(Invoke) /\ pollResp.body.fieldsOk)
       => /\ decoded.err = NoErr
          /\ decoded.Invoke = [isNil |-> FALSE, EventType |-> Invoke, id |-> pollResp.body.id]
          /\ decoded.Shutdown.isNil
  /\ (DecodeRan /\ HasDiscriminator(Shutdown) /\ pollResp.body.fieldsOk)
       => /\ decoded.err = NoErr
          /\ decoded.Shutdown = [isNil |-> FALSE, EventType |-> Shutdown, id |-> pollResp.body.id]
          /\ decoded.Invoke.isNil
  /\ (decoded.err = NoErr) => (decoded.Invoke.isNil # decoded.Shutdown.isNil)

\* C13 witness: a well-formed SHUTDOWN payload was decoded
C13_Witness ==
  /\ DecodeRan /\ HasDiscriminator(Shutdown) /\ pollResp.body.fieldsOk
  /\ decoded.err = NoErr /\ ~decoded.Shutdown.isNil

\* C14: for a payload whose eventType is missing, not a string, or a string
\* other than "INVOKE" and "SHUTDOWN", the decode returns an error and
\* neither variant is populated.
C14_UnknownDiscriminatorFails ==
  (DecodeRan /\ ~HasDiscriminator(Invoke) /\ ~HasDiscriminator(Shutdown))
  => /\ decoded.err \notin {NoErr, "not decoded"}
     /\ decoded.Invoke.isNil /\ decoded.Shutdown.isNil

\* C14 witness: a payload of kind "OTHER" was refused
C14_Witness ==
  /\ DecodeRan /\ HasDiscriminator("OTHER")
  /\ decoded.err = ErrUnknownEventType /\ lastOp = "FetchFail"

\* C17: a payload of an unrecognized kind is not an error for Run: Run calls
\* no callback for it and goes back to polling, cancelled ctx or not.
C17_UnknownKindSkipped ==
  [][( /\ pc = "fetching"
       /\ lastOp' \in {"FetchOk", "FetchFail"}
       /\ ~pollResp'.doErr /\ pollResp'.status = StatusOK
       /\ pollResp'.body.json /\ pollResp'.body.typeOk
       /\ pollResp'.body.eventType = "OTHER" )
      => /\ pc' = "loop"
         /\ calls' = calls
         /\ runResult' = Pending]_vars

\* C19: CallbackInvoke is only ever called with an event whose EventType is
\* INVOKE, CallbackShutdown only with one whose EventType is SHUTDOWN.
C19_DispatchRespectsKind ==
  \A i \in 1..Len(calls) :
     /\ calls[i].cb = "CallbackInvoke" => calls[i].EventType = Invoke
     /\ calls[i].cb = "CallbackShutdown" => calls[i].EventType = Shutdown
     /\ calls[i].cb \in {"CallbackInvoke", "CallbackShutdown"}

\* C19 witness: both callbacks have been called in one Run
C19_Witness ==
  /\ Len(calls) >= 2
  /\ calls[1].cb = "CallbackInvoke"
  /\ calls[Len(calls)].cb = "CallbackShutdown"

\* C20: within Run at most one poll is in flight, at most one callback is
\* executing, and no poll is in flight while a callback is executing.
C20_OneThingAtATime ==
  /\ inFlight \in {0, 1}
  /\ executing \in {0, 1}
  /\ inFlight + executing <= 1
  /\ (inFlight = 1) <=> (pc = "fetching")
  /\ (executing = 1) <=> (pc \in {"invokeCb", "shutdownCb"})

\* C20 witness: a callback is executing after the third poll of a Run
C20_Witness ==
  /\ executing = 1 /\ inFlight = 0 /\ polls = 3 /\ pc = "invokeCb"

\* number of CallbackInvoke entries among the first n calls
RECURSIVE InvokeCalls(_)
InvokeCalls(n) ==
  IF n = 0 THEN 0
  ELSE InvokeCalls(n - 1) + (IF calls[n].cb = "CallbackInvoke" THEN 1 ELSE 0)

\* C18: against the mock host a client registered for both kinds has had at
\* least 4 CallbackInvoke calls when its single CallbackShutdown call is made,
\* that call is the last one, and Run then returns (nil when the shutdown
\* callback returns nil), at the latest in the second the timer expires.
C18_MockScenario ==
  (CallbackInvoke /\ CallbackShutdown)
  => /\ (pc \in {"shutdownCb", "done"}
           => /\ Len(calls) >= 5
              /\ InvokeCalls(Len(calls) - 1) = Len(calls) - 1
              /\ calls[Len(calls)].cb = "CallbackShutdown"
              /\ Len(calls) - 1 >= 4)
     /\ (pc = "done" => (cbErr = NoErr => runResult = Nil))
     /\ (now > MockShutdownAfter => pc = "done")
     /\ (now < MockShutdownAfter /\ regResult = NoErr /\ pc # "idle"
           => pc \in {"loop", "fetching", "invokeCb"})

\* C18 witness: Run returned nil after exactly 4 invoke dispatches and the
\* shutdown dispatch
C18_Witness ==
  /\ CallbackInvoke /\ CallbackShutdown
  /\ pc = "done" /\ runResult = Nil
  /\ Len(calls) = 5 /\ InvokeCalls(4) = 4
  /\ calls[5].cb = "CallbackShutdown"
  /\ now = MockShutdownAfter

\* the steps Run takes itself, as lastOp records them
RunSteps == {"RunCall", "IssuePoll", "FetchOk", "FetchFail", "InvokeReturn",
             "ShutdownReturn"}

\* C21: Run and SubscribeTelemetry leave the client unchanged: across every
\* step of Run and every SubscribeTelemetry call, whatever its outcome, the
\* session identifier, the name, both callbacks and both endpoints keep their
\* values; a step that changes the session identifier is a Register.
C21_RunSubscribeFrame ==
  [][ /\ (lastOp' \in RunSteps \cup {"SubscribeTelemetry"} => clientVars' = clientVars)
      /\ (extensionId' # extensionId => lastOp' = "Register") ]_vars

\* C21 witness: on a client that Register gave a session, a SubscribeTelemetry
\* call that was refused has returned and the client is as NewClient and
\* Register left it
C21_Witness ==
  /\ lastOp = "SubscribeTelemetry" /\ telResult = ErrSubscribeStatus
  /\ telResp.status = 500
  /\ extensionId = "id-B" /\ regResult = NoErr
  /\ Name = ClientName
  /\ lambdaExtensionAPIEndpoint = ExtensionAPIEndpoint(AWS_LAMBDA_RUNTIME_API)
  /\ lambdaTelemetryAPIEndpoint = TelemetryAPIEndpoint(AWS_LAMBDA_RUNTIME_API)

\* C22: cancellation is examined only on the failed-fetch path.  A Run called
\* with a cancelled ctx still polls; an event fetched while ctx is cancelled
\* is dispatched as any other (its callback is called if set; a Shutdown
\* event without callback ends Run); after the callback of an Invoke event,
\* or an Invoke event without callback, Run is at the top of the loop, which
\* it leaves only by polling; and a step in which Run returns while ctx is
\* cancelled is a failed poll or the end of a Shutdown dispatch.
C22_CancelOnlyOnFailedFetch ==
  [][ /\ (lastOp' = "RunCall" /\ ctxDone' /\ extensionId # ""
            => pc' = "loop" /\ runResult' = Pending)
      /\ (lastOp' = "FetchOk" /\ ctxDone
            => /\ Len(trace') = Len(trace) + 1
               /\ LET t == trace'[Len(trace')]
                  IN /\ (t.EventType = Invoke /\ CallbackInvoke
                           => pc' = "invokeCb" /\ calls' = Append(calls, CallFor(t)))
                     /\ (t.EventType = Invoke /\ ~CallbackInvoke
                           => pc' = "loop" /\ calls' = calls)
                     /\ (t.EventType = Shutdown /\ CallbackShutdown
                           => pc' = "shutdownCb" /\ calls' = Append(calls, CallFor(t)))
                     /\ (t.EventType = Shutdown /\ ~CallbackShutdown
                           => pc' = "done" /\ runResult' = Nil /\ calls' = calls))
      /\ (lastOp' = "InvokeReturn" /\ ctxDone
            => pc' = "loop" /\ runResult' = Pending)
      /\ (pc = "loop" /\ pc' # "loop"
            => lastOp' = "IssuePoll" /\ pc' = "fetching" /\ polls' = polls + 1)
      /\ (ctxDone /\ pc \notin {"idle", "done"} /\ pc' = "done"
            => lastOp' = "FetchFail" \/ ShutdownSeen')
    ]_vars

\* C22 witness: ctx was cancelled before the first poll returned, the poll still
\* delivered an Invoke event, CallbackInvoke was called with it and has
\* returned, and Run is polling again
C22_Witness ==
  /\ ctxDone /\ okAfterCancel
  /\ pc = "fetching" /\ polls = 2 /\ failures = 0
  /\ Len(trace) = 1 /\ trace[1].EventType = Invoke
  /\ calls = <<CallFor(trace[1])>>
  /\ lastOp = "IssuePoll"

\* C23: the default subscription is stable under caller mutation: once the
\* caller has modified the value it got from NewDefaultTelemetrySubscription
\* (a field, or an element of its Types), a SubscribeTelemetry call with a nil
\* subscription still sends the documented default payload.
C23_DefaultStableUnderMutation ==
  ( /\ lastOp = "SubscribeTelemetry" /\ telArg.isNil
    /\ ~held.isNil /\ held.sub # DocumentedDefault )
  => telReq.payload = DocumentedDefault

====
